---- MODULE Spec2Model ----
(***************************************************************************)
(* Drones3D backend server: the connection handler threads of              *)
(* backend/server/main.rs (identification, lockstep rounds over two        *)
(* barriers, pacing, broadcast) and the accept loop that starts them, and   *)
(* the simulation engine of backend/server/gamestate.rs that CompetitorA's  *)
(* handler runs once per round.                                            *)
(***************************************************************************)
EXTENDS Integers, Sequences, FiniteSets, TLC

\* ------------------------------------------------------------------ bounds
NumConns == 3          \* connections that reach the listener
MaxRounds == 2         \* input lines a competitor client sends
MaxOverrun == 1        \* a late input is at most this many ms past the tick delay
MaxSimTicks == 84      \* ticks computed in a run of the engine from Gamestate::new
MaxTickSteps == 1      \* ticks computed in a run of the engine from a given Gamestate
MaxTwinTicks == 2      \* ticks computed in two runs of the engine side by side

\* ------------------------------------------------------- program constants
GameTickDelay == 16        \* Args::game_tick_delay default
CompetitorMaxDebt == 1000  \* Args::competitor_max_debt default
MaxGameTicks == 10000      \* Args::max_game_ticks default

Conns == 1..NumConns
Mutexes == {"gamestate", "input_a", "input_b", "num_competitors", "num_spectators"}
Barriers == {"recieved_inputs", "computed_next_tick"}
ConnectionType == {"Unknown", "CompetitorA", "CompetitorB", "Spectator"}

\* A line of text is a sequence of words; " " stands for any whitespace.
ERR == <<"ERR">>
IdentTexts == {<<"COMPETITOR">>, <<"COMPETITOR", " ">>, <<"SPECTATOR">>, <<"HELLO">>}
\* an input line of a competitor (see FromStr for the words of a JSON text)
InputTexts == {<<"controls_1", "1", "1", "0", "true", "controls_2", "0", "0", "1", "false">>}
\* time since the previous broadcast, in ms, when an input line has arrived
ElapsedRange == (GameTickDelay - 1)..(GameTickDelay + MaxOverrun)

VARIABLES
    training_mode,    \* Args::training_mode
    proc_alive,       \* FALSE once the main thread has panicked (process exit)
    next_conn,        \* next connection listener.incoming() yields
    threads_spawned,  \* main: threads_spawned
    main_conn,        \* connection handled on the main thread, 0 if none
    pc,               \* position of each connection's handle_client
    peer,             \* "open" / "closed": the client end of each stream
    connection_type,  \* handle_client: connection_type
    timeout_debt,     \* handle_client: timeout_debt
    elapsed,          \* handle_client: since_last_broadcast
    snapshot,         \* serialized Gamestate a handler is about to write
    exit_msg,         \* what a handler printed when it gave up its connection
    mutex,            \* holder of each Mutex, 0 if free
    poisoned,         \* Mutex poisoned by a panic of its holder
    num_competitors,
    num_spectators,
    input_a,
    input_b,
    gamestate,        \* the Gamestate behind Arc<Mutex<Gamestate>>
    in_tick,          \* connection inside compute_next_tick, 0 if none
    bar_count,        \* Barrier: count
    bar_gen,          \* Barrier: generation_id
    wgen,             \* Barrier::wait: local_gen of a waiting thread
    \* history of the run
    bcast,            \* ticks_progressed of each per-round broadcast written
    reg_order,        \* connections in the order they registered as COMPETITOR
    round_line,       \* per connection: number of input lines stored, and the last
    used,             \* arguments of the last compute_next_tick call
    torn,             \* a serialization ran while a tick was being computed
    before,           \* the Gamestate the last compute_next_tick call started from
    drawn,            \* what the rng gave during the last compute_next_tick call
    waited,           \* per player: ticks in a row spent waiting for its respawn
    idle,             \* every tick so far was computed from neutral controls
    twin,             \* the Gamestate of a second run given the same draws and inputs
    snap,             \* the texts the two runs serialized their Gamestates to
    stored            \* the last InputRaw validated, and the Controls it gave

vars == <<training_mode, proc_alive, next_conn, threads_spawned, main_conn, pc,
          peer, connection_type, timeout_debt, elapsed, snapshot, exit_msg,
          mutex, poisoned, num_competitors, num_spectators, input_a, input_b,
          gamestate, in_tick, bar_count, bar_gen, wgen, bcast, reg_order,
          round_line, used, torn, before, drawn, waited, idle, twin, snap,
          stored>>

\* ----------------------------------------------------------- pure helpers
RECURSIVE TrimStart(_)
TrimStart(s) == IF s # <<>> /\ Head(s) = " " THEN TrimStart(Tail(s)) ELSE s

RECURSIVE TrimEnd(_)
TrimEnd(s) ==
    IF s # <<>> /\ s[Len(s)] = " " THEN TrimEnd(SubSeq(s, 1, Len(s) - 1)) ELSE s

\* str::trim
Trim(s) == TrimEnd(TrimStart(s))

\* What a client puts on the wire for one read: n bytes (0: the peer has
\* closed), holding text and, when nl, the terminating newline.
ClientMsgs(texts) ==
    {[n |-> 1, nl |-> b, text |-> t] : b \in BOOLEAN, t \in texts}
ClosedMsg == [n |-> 0, nl |-> FALSE, text |-> <<>>]

\* read_until_newline, for a read that returned Ok(n)
ReadUntilNewline(m) ==
    IF m.n = 0 THEN ERR
    ELSE IF m.nl THEN m.text
    ELSE ERR

\* ------------------------------------------------------ numbers of the engine
\* f32 quantities are kept in fixed point: lengths and velocities in 1/100 of
\* a unit, angles in 1/10 of a radian, cosines and sines in 1/1000.  Products
\* that leave the machine integers are computed on digit sequences.

\* sign-and-magnitude integers; mag is little-endian in base 10000

RECURSIVE BigDigits(_)
BigDigits(n) == IF n = 0 THEN <<>> ELSE <<n % 10000>> \o BigDigits(n \div 10000)

RECURSIVE BigStrip(_)
BigStrip(x) ==
    IF x # <<>> /\ x[Len(x)] = 0 THEN BigStrip(SubSeq(x, 1, Len(x) - 1)) ELSE x

RECURSIVE BigAddMag(_, _, _)
BigAddMag(x, y, carry) ==
    IF x = <<>> /\ y = <<>> THEN (IF carry = 0 THEN <<>> ELSE <<carry>>)
    ELSE LET dx == IF x = <<>> THEN 0 ELSE Head(x)
             dy == IF y = <<>> THEN 0 ELSE Head(y)
             t == dx + dy + carry
         IN <<t % 10000>> \o BigAddMag(IF x = <<>> THEN x ELSE Tail(x),
                                         IF y = <<>> THEN y ELSE Tail(y),
                                         t \div 10000)

\* x - y for magnitudes with x >= y
RECURSIVE BigSubMag(_, _, _)
BigSubMag(x, y, borrow) ==
    IF x = <<>> THEN <<>>
    ELSE LET dy == IF y = <<>> THEN 0 ELSE Head(y)
             t == Head(x) - dy - borrow
         IN <<IF t < 0 THEN t + 10000 ELSE t>>
            \o BigSubMag(Tail(x), IF y = <<>> THEN y ELSE Tail(y),
                         IF t < 0 THEN 1 ELSE 0)

RECURSIVE BigMulDigit(_, _, _)
BigMulDigit(x, d, carry) ==
    IF x = <<>> THEN (IF carry = 0 THEN <<>> ELSE <<carry>>)
    ELSE LET t == Head(x) * d + carry
         IN <<t % 10000>> \o BigMulDigit(Tail(x), d, t \div 10000)

RECURSIVE BigMulMag(_, _)
BigMulMag(x, y) ==
    IF y = <<>> THEN <<>>
    ELSE BigAddMag(BigMulDigit(x, Head(y), 0), <<0>> \o BigMulMag(x, Tail(y)), 0)

\* -1, 0, 1 as magnitude x is below, equal to, above magnitude y (both stripped)
RECURSIVE BigCmpMag(_, _)
BigCmpMag(x, y) ==
    IF Len(x) # Len(y) THEN (IF Len(x) < Len(y) THEN -1 ELSE 1)
    ELSE IF x = <<>> THEN 0
    ELSE IF x[Len(x)] # y[Len(y)] THEN (IF x[Len(x)] < y[Len(y)] THEN -1 ELSE 1)
    ELSE BigCmpMag(SubSeq(x, 1, Len(x) - 1), SubSeq(y, 1, Len(y) - 1))

BigNorm(neg, mag) ==
    LET m == BigStrip(mag) IN [neg |-> neg /\ m # <<>>, mag |-> m]

Big(n) == BigNorm(n < 0, BigDigits(IF n < 0 THEN -n ELSE n))
BigNeg(x) == BigNorm(~x.neg, x.mag)
BigMul(x, y) == BigNorm(x.neg # y.neg, BigMulMag(x.mag, y.mag))
BigAdd(x, y) ==
    IF x.neg = y.neg THEN BigNorm(x.neg, BigAddMag(x.mag, y.mag, 0))
    ELSE IF BigCmpMag(x.mag, y.mag) >= 0
         THEN BigNorm(x.neg, BigSubMag(x.mag, y.mag, 0))
         ELSE BigNorm(y.neg, BigSubMag(y.mag, x.mag, 0))
BigSub(x, y) == BigAdd(x, BigNeg(y))
\* -1, 0, 1: the sign of x
BigSign(x) == IF x.mag = <<>> THEN 0 ELSE IF x.neg THEN -1 ELSE 1
BigLess(x, y) == BigSign(BigSub(x, y)) < 0

\* x / d rounded to the nearest integer, halves away from zero (d > 0)
RoundDiv(x, d) ==
    IF x >= 0 THEN (2 * x + d) \div (2 * d) ELSE -((2 * (-x) + d) \div (2 * d))

\* f32::cos / f32::sin of an angle given in 1/10 radian, in 1/1000
CosMilli(k) ==
    LET a == IF k < 0 THEN -k ELSE k IN
    CASE a = 0 -> 1000 [] a = 1 -> 995 [] a = 2 -> 980 [] a = 3 -> 955
      [] a = 4 -> 921 [] a = 5 -> 878 [] a = 6 -> 825

SinMilli(k) ==
    LET a == IF k < 0 THEN -k ELSE k
        s == CASE a = 0 -> 0 [] a = 1 -> 100 [] a = 2 -> 199 [] a = 3 -> 296
               [] a = 4 -> 389 [] a = 5 -> 479 [] a = 6 -> 565
    IN IF k < 0 THEN -s ELSE s

Sq(x) == x * x
DistSq(p, q) == Sq(p[1] - q[1]) + Sq(p[2] - q[2]) + Sq(p[3] - q[3])

\* intersect_sphere_lineseg(center, radius, v1, v2), on exact numbers: with
\* a, b, c as in the source and d = b^2 - 4ac, the source's
\*   t_min = t_max = (-b - sqrt(d)) / 2.0 * a
\* lies strictly between 0 and 1 (a NaN from d < 0 compares false).  In fixed
\* point a, b, c carry a factor 100^2 each, so 0 < t < 1 reads
\*   0 < (-b - sqrt(d)) * a < 2 * 100^4.
intersect_sphere_lineseg(center, radius, v1, v2) ==
    LET r2 == Sq(radius)
        a == DistSq(v1, center) - r2
        c == DistSq(v1, v2)
        b == DistSq(v2, center) - a - c - r2
        A == Big(a)
        B == Big(b)
        d == BigSub(BigMul(B, B), BigMul(Big(4), BigMul(A, Big(c))))
        two == BigMul(Big(2), BigMul(Big(10000), Big(10000)))
        a2d == BigMul(BigMul(A, A), d)
        \* x = -ab - 2*100^4 and y = ab + 2*100^4
        y == BigAdd(BigMul(A, B), two)
        x == BigNeg(y)
    IN IF a = 0 THEN TRUE
       ELSE IF a > 0
            THEN /\ b < 0 /\ c > 0
                 /\ BigSign(d) >= 0
                 /\ (BigSign(x) < 0 \/ BigLess(BigMul(x, x), a2d))
            ELSE /\ (b > 0 \/ c > 0)
                 /\ BigSign(d) >= 0
                 /\ BigSign(y) > 0
                 /\ BigLess(a2d, BigMul(y, y))

\* intersect_spheres: sqrt(dist^2) < r1 + r2
intersect_spheres(center_1, radius_1, center_2, radius_2) ==
    DistSq(center_1, center_2) < Sq(radius_1 + radius_2)

\* add_vec3
add_vec3(v1, v2) == <<v1[1] + v2[1], v1[2] + v2[2], v1[3] + v2[3]>>

\* ------------------------------------------------- constants of gamestate.rs
\* lengths in 1/100 of a unit, timers in ticks
GAME_AREA_SIZE == 2000
OBSTACLE_AREA_SIZE == 3000          \* GAME_AREA_SIZE * 1.5
PLAYER_SPAWN_RANGE_START == 500     \* PLAYER_SPAWN_RANGE is half open:
PLAYER_SPAWN_RANGE_END == 1500      \*   start <= x < end
PLAYER_RADIUS == 100
MAX_PLAYER_RESPAWN_TIMER == 80
PLAYER_THRUST_FACTOR == 10
PLAYER_TURN_SPEED == 1              \* 0.1 rad, in 1/10 rad
AMMO_MAX == 3
RELOAD_TIMER_MAX == 60
FIRE_RATE_TIMER_MAX == 10
MAX_OBSTACLE_SPAWN_TIMER == 80
OBSTACLE_SPAWN_TIMER_INIT_END == 20 \* OBSTACLE_SPAWN_TIMER_INIT = 0..20, half open
OBSTACLE_RADIUS_START == 150        \* OBSTACLE_RADIUS = 1.5..2.0, half open
OBSTACLE_RADIUS_END == 200
BULLET_SPEED == 25
MUZZLE_OFFSET == 150                \* PLAYER_RADIUS * 1.5

Team == {"A", "B"}
PlayerIds == <<"player_a1", "player_a2", "player_b1", "player_b2">>
Players == {PlayerIds[i] : i \in 1..4}

InSpawnRange(x) == PLAYER_SPAWN_RANGE_START <= x /\ x < PLAYER_SPAWN_RANGE_END

\* inside_obstacle_area
inside_obstacle_area(position) ==
    \A i \in 1..3 :
      position[i] >= -OBSTACLE_AREA_SIZE /\ position[i] <= OBSTACLE_AREA_SIZE

\* inside_game_area
inside_game_area(position, radius) ==
    \A i \in 1..3 :
      /\ position[i] - radius >= -GAME_AREA_SIZE
      /\ position[i] + radius <= GAME_AREA_SIZE

\* ------------------------------------------------------------------ inputs
\* A JSON text is the sequence of its words: keys, number and boolean
\* literals; braces, quotes, colons and commas are left out.  The raw control
\* values sent are whole numbers.
NumOf(w) ==
    CASE w = "-2" -> -2 [] w = "-1" -> -1 [] w = "0" -> 0 [] w = "1" -> 1
      [] w = "2" -> 2
NumWords == {"-2", "-1", "0", "1", "2"}
BoolWords == {"true", "false"}

\* Deserialize for ControlsRaw, from the four values of one control object
ControlsRawOf(w) ==
    IF w[1] \in NumWords /\ w[2] \in NumWords /\ w[3] \in NumWords /\ w[4] \in BoolWords
    THEN [ok |-> TRUE,
          raw |-> [rot_y |-> NumOf(w[1]), forward_back |-> NumOf(w[2]),
                   up_down |-> NumOf(w[3]), shoot |-> (w[4] = "true")]]
    ELSE [ok |-> FALSE, raw |-> <<>>]

\* serde_json::from_str::<InputRaw>: whitespace between the words is skipped,
\* the two keys come in either order, anything else is an Err
FromStr(input) ==
    LET t == SelectSeq(input, LAMBDA w : w # " ")
        k1 == IF Len(t) = 10 /\ t[1] = "controls_1" /\ t[6] = "controls_2" THEN 1
              ELSE IF Len(t) = 10 /\ t[1] = "controls_2" /\ t[6] = "controls_1" THEN 6
              ELSE 0
        k2 == 7 - k1
        c1 == ControlsRawOf(SubSeq(t, k1 + 1, k1 + 4))
        c2 == ControlsRawOf(SubSeq(t, k2 + 1, k2 + 4))
    IN IF k1 # 0 /\ c1.ok /\ c2.ok
       THEN [ok |-> TRUE, raw |-> [controls_1 |-> c1.raw, controls_2 |-> c2.raw]]
       ELSE [ok |-> FALSE, raw |-> <<>>]

\* variant: only the upper limit is applied
ClampAbove(x) == IF x > 1 THEN 1 ELSE x

\* f32::clamp(-1.0, 1.0)
Clamp(x) == IF x < -1 THEN -1 ELSE IF x > 1 THEN 1 ELSE x

ClampControls(r) ==
    [rot_y |-> Clamp(r.rot_y), forward_back |-> Clamp(r.forward_back),
     up_down |-> Clamp(r.up_down), shoot |-> r.shoot]

\* Controls::validate_raw_controls
validate_raw_controls(raw) ==
    <<ClampControls(raw.controls_1), ClampControls(raw.controls_2)>>

\* Controls::empty
ControlsEmpty == [rot_y |-> 0, forward_back |-> 0, up_down |-> 0, shoot |-> FALSE]

\* variant: a line that does not parse makes the avatars thrust ahead
ControlsOfKeepMoving(input) ==
    LET result == FromStr(input) IN
    IF result.ok THEN validate_raw_controls(result.raw)
    ELSE <<[ControlsEmpty EXCEPT !.forward_back = 1], ControlsEmpty>>

\* compute_next_tick, "validate controls sent by user": the two Controls of
\* one competitor's line
ControlsOf(input) ==
    LET result == FromStr(input) IN
    IF result.ok THEN validate_raw_controls(result.raw)
    ELSE <<ControlsEmpty, ControlsEmpty>>

\* ----------------------------------------------------------------- players
\* Player::spawn
PlayerSpawn(position, team) ==
    [team |-> team, position |-> position, velocity |-> <<0, 0, 0>>, rot_y |-> 0,
     ammo |-> AMMO_MAX, reload_timer |-> 0, fire_rate_timer |-> 0,
     is_dead |-> FALSE, respawn_timer |-> 0]

\* Player::respawn; point is what the three rng.gen_range calls give
PlayerRespawn(player, point) ==
    [player EXCEPT !.position = point, !.velocity = <<0, 0, 0>>, !.rot_y = 0,
                   !.ammo = AMMO_MAX, !.reload_timer = 0, !.fire_rate_timer = 0,
                   !.is_dead = FALSE, !.respawn_timer = 0]

\* Gamestate::new; seed holds what the rng gives: the first obstacle timer
\* and the four spawn points
GamestateNew(seed, max_game_ticks) ==
    [ticks_progressed |-> 0,
     max_game_ticks |-> max_game_ticks,
     obstacles |-> <<>>,
     obstacle_counter |-> 0,
     obstacle_spawn_timer |-> seed.timer,
     bullets |-> <<>>,
     bullet_counter |-> 0,
     player_a1 |-> PlayerSpawn(seed.points[1], "A"),
     player_a2 |-> PlayerSpawn(seed.points[2], "A"),
     player_b1 |-> PlayerSpawn(seed.points[3], "B"),
     player_b2 |-> PlayerSpawn(seed.points[4], "B"),
     scores |-> [A |-> 0, B |-> 0]]

\* HashMap::insert
MapInsert(m, k, v) == [g \in DOMAIN m \cup {k} |-> IF g = k THEN v ELSE m[g]]
\* HashMap::remove of every key in ks
MapRemove(m, ks) == [g \in DOMAIN m \ ks |-> m[g]]

\* ------------------------------------------------------- compute_next_tick
\* What the rng gives during one call is the record rng: the spawn point,
\* radius and next timer of a spawned obstacle, and a respawn point for each
\* player.

\* variant: the obstacle counter is left as it is
SpawnObstaclesSameGuid(gs, rng) ==
    LET timer == gs.obstacle_spawn_timer + 1 IN
    IF timer > MAX_OBSTACLE_SPAWN_TIMER
    THEN LET spawned == [guid |-> gs.obstacle_counter, position |-> rng.spawn,
                         velocity |-> <<0, 0, 0>>, radius |-> rng.radius]
         IN [gs EXCEPT !.obstacles = MapInsert(@, spawned.guid, spawned),
                       !.obstacle_spawn_timer = rng.timer]
    ELSE [gs EXCEPT !.obstacle_spawn_timer = timer]

\* "spawn ... obstacles": the timer advances; past its maximum an obstacle is
\* inserted at a random spawn point, at rest
SpawnObstacles(gs, rng) ==
    LET timer == gs.obstacle_spawn_timer + 1 IN
    IF timer > MAX_OBSTACLE_SPAWN_TIMER
    THEN LET spawned == [guid |-> gs.obstacle_counter, position |-> rng.spawn,
                         velocity |-> <<0, 0, 0>>, radius |-> rng.radius]
         IN [gs EXCEPT !.obstacles = MapInsert(@, spawned.guid, spawned),
                       !.obstacle_counter = @ + 1,
                       !.obstacle_spawn_timer = rng.timer]
    ELSE [gs EXCEPT !.obstacle_spawn_timer = timer]

\* "move, and despawn obstacles"
MoveObstacles(gs) ==
    LET moved == [g \in DOMAIN gs.obstacles |->
                    [gs.obstacles[g] EXCEPT !.position = add_vec3(@, gs.obstacles[g].velocity)]]
        obstacles_to_delete == {g \in DOMAIN moved : ~inside_obstacle_area(moved[g].position)}
    IN [gs EXCEPT !.obstacles = MapRemove(moved, obstacles_to_delete)]

\* variant: a reload does not look at the ammo held
PlayerTimersOverfill(player) ==
    LET p1 == IF player.fire_rate_timer <= FIRE_RATE_TIMER_MAX
              THEN [player EXCEPT !.fire_rate_timer = @ + 1] ELSE player
    IN IF p1.reload_timer <= RELOAD_TIMER_MAX
       THEN [p1 EXCEPT !.reload_timer = @ + 1]
       ELSE [p1 EXCEPT !.ammo = @ + 1, !.reload_timer = 0]

\* the timers of a player that is processed (lines 364-374)
PlayerTimers(player) ==
    LET p1 == IF player.fire_rate_timer <= FIRE_RATE_TIMER_MAX
              THEN [player EXCEPT !.fire_rate_timer = @ + 1] ELSE player
    IN IF p1.reload_timer <= RELOAD_TIMER_MAX
       THEN [p1 EXCEPT !.reload_timer = @ + 1]
       ELSE IF p1.ammo < AMMO_MAX
            THEN [p1 EXCEPT !.ammo = @ + 1, !.reload_timer = 0]
            ELSE p1

\* direction_vec2 of a heading, in 1/1000
DirectionVec2(rot_y) == <<CosMilli(rot_y), SinMilli(rot_y)>>

\* thrust, turn and integration of a player that is processed (lines 375-383)
PlayerMove(player, controls) ==
    LET rot_y == player.rot_y + controls.rot_y * PLAYER_TURN_SPEED
        direction_vec2 == DirectionVec2(rot_y)
        velocity ==
          <<player.velocity[1]
              + RoundDiv(direction_vec2[1] * PLAYER_THRUST_FACTOR * controls.forward_back, 1000),
            player.velocity[2]
              + RoundDiv(direction_vec2[2] * PLAYER_THRUST_FACTOR * controls.forward_back, 1000),
            player.velocity[3] + controls.up_down * PLAYER_THRUST_FACTOR>>
    IN [player EXCEPT !.rot_y = rot_y, !.velocity = velocity,
                      !.position = add_vec3(@, velocity)]

\* variant: a shot costs no ammo
ShootFree(gs, id, controls) ==
    LET player == gs[id]
        direction_vec2 == DirectionVec2(player.rot_y)
        new_pos == <<player.position[1] + RoundDiv(MUZZLE_OFFSET * direction_vec2[1], 1000),
                     player.position[2] + RoundDiv(MUZZLE_OFFSET * direction_vec2[2], 1000),
                     player.position[3]>>
        spawned == [guid |-> gs.bullet_counter, team |-> player.team,
                    position |-> new_pos, prev_position |-> new_pos,
                    velocity |-> <<RoundDiv(direction_vec2[1] * BULLET_SPEED, 1000),
                                   RoundDiv(direction_vec2[2] * BULLET_SPEED, 1000)>>]
    IN IF controls.shoot /\ player.fire_rate_timer > FIRE_RATE_TIMER_MAX
       THEN [gs EXCEPT !.bullets = MapInsert(@, spawned.guid, spawned),
                       !.bullet_counter = @ + 1,
                       ![id] = [player EXCEPT !.fire_rate_timer = 0]]
       ELSE gs

\* the shot of a player that is processed (lines 384-405)
Shoot(gs, id, controls) ==
    LET player == gs[id]
        direction_vec2 == DirectionVec2(player.rot_y)
        new_pos == <<player.position[1] + RoundDiv(MUZZLE_OFFSET * direction_vec2[1], 1000),
                     player.position[2] + RoundDiv(MUZZLE_OFFSET * direction_vec2[2], 1000),
                     player.position[3]>>
        spawned == [guid |-> gs.bullet_counter, team |-> player.team,
                    position |-> new_pos, prev_position |-> new_pos,
                    velocity |-> <<RoundDiv(direction_vec2[1] * BULLET_SPEED, 1000),
                                   RoundDiv(direction_vec2[2] * BULLET_SPEED, 1000)>>]
    IN IF controls.shoot /\ player.ammo > 0
          /\ player.fire_rate_timer > FIRE_RATE_TIMER_MAX
       THEN [gs EXCEPT !.bullets = MapInsert(@, spawned.guid, spawned),
                       !.bullet_counter = @ + 1,
                       ![id] = [player EXCEPT !.fire_rate_timer = 0, !.ammo = @ - 1]]
       ELSE gs

\* a dead player still waits for its respawn: the loop body ends at `continue`
Waits(player) == player.is_dead /\ player.respawn_timer <= MAX_PLAYER_RESPAWN_TIMER
\* a dead player whose wait is over is respawned and then processed
Respawns(player) == player.is_dead /\ player.respawn_timer > MAX_PLAYER_RESPAWN_TIMER

\* the player at the shot check of line 384: respawned if due, timers and
\* movement done
PlayerAtShot(player, controls, point) ==
    PlayerMove(PlayerTimers(IF Respawns(player) THEN PlayerRespawn(player, point)
                            ELSE player),
               controls)

\* one pass of the loop "player movement, shooting and respawn logic"
UpdatePlayer(gs, id, controls, point) ==
    IF Waits(gs[id])
    THEN [gs EXCEPT ![id] = [@ EXCEPT !.respawn_timer = @ + 1]]
    ELSE Shoot([gs EXCEPT ![id] = PlayerAtShot(@, controls, point)], id, controls)

\* the whole loop, in the order a1, a2, b1, b2
UpdatePlayers(gs, controls_a, controls_b, rng) ==
    LET g1 == UpdatePlayer(gs, "player_a1", controls_a[1], rng.respawn["player_a1"])
        g2 == UpdatePlayer(g1, "player_a2", controls_a[2], rng.respawn["player_a2"])
        g3 == UpdatePlayer(g2, "player_b1", controls_b[1], rng.respawn["player_b1"])
    IN UpdatePlayer(g3, "player_b2", controls_b[2], rng.respawn["player_b2"])

\* "move and despawn bullets"; prev_position is left as it is
MoveBullets(gs) ==
    LET moved == [g \in DOMAIN gs.bullets |->
                    [gs.bullets[g] EXCEPT
                       !.position = <<@[1] + gs.bullets[g].velocity[1],
                                      @[2] + gs.bullets[g].velocity[2], @[3]>>]]
        bullets_to_delete == {g \in DOMAIN moved : ~inside_obstacle_area(moved[g].position)}
    IN [gs EXCEPT !.bullets = MapRemove(moved, bullets_to_delete)]

Kill(player) == [player EXCEPT !.is_dead = TRUE, !.respawn_timer = 0]

\* "collide players with each other": both players of an intersecting pair;
\* positions do not change in this stage, so the order of the six pairs does
\* not matter
CollidePlayers(gs) ==
    LET hit(p) == \E q \in Players \ {p} :
                    intersect_spheres(gs[p].position, PLAYER_RADIUS,
                                      gs[q].position, PLAYER_RADIUS)
        step(g, p) == IF hit(p) THEN [g EXCEPT ![p] = Kill(@)] ELSE g
    IN step(step(step(step(gs, "player_a1"), "player_a2"), "player_b1"), "player_b2")

\* the obstacles a player's sphere intersects
ObstaclesHit(gs, p) ==
    {g \in DOMAIN gs.obstacles :
       intersect_spheres(gs[p].position, PLAYER_RADIUS,
                         gs.obstacles[g].position, gs.obstacles[g].radius)}

\* variant: an obstacle collision also pays the other team
CollideObstaclesReward(gs) ==
    LET step(g, p) ==
          LET n == Cardinality(ObstaclesHit(gs, p))
              other == IF gs[p].team = "A" THEN "B" ELSE "A" IN
          IF n = 0 THEN g
          ELSE [g EXCEPT ![p] = Kill(@), !.scores[gs[p].team] = @ - n,
                         !.scores[other] = @ + n]
    IN step(step(step(step(gs, "player_a1"), "player_a2"), "player_b1"), "player_b2")

\* "collide players with obstacles": every intersecting (player, obstacle)
\* pair kills the player and takes one point from its team
CollideObstacles(gs) ==
    LET step(g, p) ==
          LET n == Cardinality(ObstaclesHit(gs, p)) IN
          IF n = 0 THEN g
          ELSE [g EXCEPT ![p] = Kill(@), !.scores[gs[p].team] = @ - n]
    IN step(step(step(step(gs, "player_a1"), "player_a2"), "player_b1"), "player_b2")

\* the bullets whose segment (position, prev_position) hits a player's sphere
BulletsHit(gs, p) ==
    {g \in DOMAIN gs.bullets :
       intersect_sphere_lineseg(gs[p].position, PLAYER_RADIUS,
                                gs.bullets[g].position, gs.bullets[g].prev_position)}

\* variant: friendly fire pays the shooter's team as well
CollideBulletsFriendly(gs) ==
    LET step(g, p) ==
          LET hits == BulletsHit(gs, p) IN
          IF hits = {} THEN g
          ELSE [g EXCEPT ![p] = Kill(@),
                         !.scores = [t \in Team |->
                            @[t] + 2 * Cardinality({b \in hits : gs.bullets[b].team = t})
                                 - (IF t = gs[p].team THEN Cardinality(hits) ELSE 0)]]
    IN step(step(step(step(gs, "player_a1"), "player_a2"), "player_b1"), "player_b2")

\* "collide players with bullets": every hit kills the player, takes one
\* point from its team and gives two to the bullet's team if that is the
\* other team; the bullet stays in the map
CollideBullets(gs) ==
    LET step(g, p) ==
          LET hits == BulletsHit(gs, p)
              foes == {b \in hits : gs.bullets[b].team # gs[p].team} IN
          IF hits = {} THEN g
          ELSE [g EXCEPT ![p] = Kill(@),
                         !.scores = [t \in Team |->
                            @[t] + 2 * Cardinality({b \in foes : gs.bullets[b].team = t})
                                 - (IF t = gs[p].team THEN Cardinality(hits) ELSE 0)]]
    IN step(step(step(step(gs, "player_a1"), "player_a2"), "player_b1"), "player_b2")

\* "kill players that are out-of-bounds", as coded: the condition of line 499
\* is inside_game_area, not its negation
KillOutOfBounds(gs) ==
    LET step(g, p) ==
          IF inside_game_area(gs[p].position, PLAYER_RADIUS)
          THEN [g EXCEPT ![p] = Kill(@)] ELSE g
    IN step(step(step(step(gs, "player_a1"), "player_a2"), "player_b1"), "player_b2")

\* the Gamestate after each stage of compute_next_tick
TickStages(gs, ia, ib, rng) ==
    LET controls_a == ControlsOf(ia)
        controls_b == ControlsOf(ib)
        ticked == [gs EXCEPT !.ticks_progressed = @ + 1]
        obstacles == MoveObstacles(SpawnObstacles(ticked, rng))
        players == UpdatePlayers(obstacles, controls_a, controls_b, rng)
        bullets == MoveBullets(players)
        collided_players == CollidePlayers(bullets)
        collided_obstacles == CollideObstacles(collided_players)
        collided_bullets == CollideBullets(collided_obstacles)
    IN [obstacles |-> obstacles, players |-> players, bullets |-> bullets,
        collided_players |-> collided_players,
        collided_obstacles |-> collided_obstacles,
        collided_bullets |-> collided_bullets,
        final |-> KillOutOfBounds(collided_bullets)]

\* Gamestate::compute_next_tick
ComputeNextTick(gs, ia, ib, rng) ==
    TickStages(gs, ia, ib, rng).final

\* ---------------------------------------------------------------- the rng
\* values the rng is taken to give: spawn points (each coordinate from
\* PLAYER_SPAWN_RANGE), obstacle radii and obstacle timers
SpawnPoints == {<<500, 500, 500>>, <<1000, 1000, 1000>>, <<1499, 1499, 1499>>}
ObstacleRadii == {150, 199}
SpawnTimers == {0, 19}
NoPoint == <<0, 0, 0>>
NoDraw == [spawn |-> NoPoint, radius |-> 150, timer |-> 0,
           respawn |-> [p \in Players |-> NoPoint]]

\* the draws one compute_next_tick call on gs can consume; a value that is not
\* consumed is left at a fixed filler
Draws(gs) ==
    LET spawns == gs.obstacle_spawn_timer + 1 > MAX_OBSTACLE_SPAWN_TIMER
        points(p) == IF Respawns(gs[p]) THEN SpawnPoints ELSE {NoPoint}
    IN {[spawn |-> s, radius |-> r, timer |-> t, respawn |-> f] :
          s \in (IF spawns THEN SpawnPoints ELSE {NoPoint}),
          r \in (IF spawns THEN ObstacleRadii ELSE {150}),
          t \in (IF spawns THEN SpawnTimers ELSE {0}),
          f \in {[player_a1 |-> a1, player_a2 |-> a2, player_b1 |-> b1, player_b2 |-> b2] :
                   a1 \in points("player_a1"), a2 \in points("player_a2"),
                   b1 \in points("player_b1"), b2 \in points("player_b2")}}

\* the draws of Gamestate::new
Seeds ==
    {[timer |-> t, points |-> ps] :
       t \in SpawnTimers,
       ps \in {<<<<500, 500, 500>>, <<1000, 1000, 1000>>,
                 <<1499, 1499, 1499>>, <<1000, 1000, 1000>>>>,
               <<<<500, 500, 500>>, <<1499, 500, 500>>,
                 <<500, 1499, 500>>, <<1499, 1499, 1499>>>>}}

\* the draws of Gamestate::new in the runs of the server
ServerSeed ==
    [timer |-> 0,
     points |-> <<<<500, 500, 500>>, <<1499, 500, 500>>,
                 <<500, 1499, 500>>, <<1499, 1499, 1499>>>>]

\* variant: the inputs barrier built for one party
BarrierPartiesOne(b) ==
    IF b = "recieved_inputs" THEN 1
    ELSE 2 + (IF training_mode THEN 0 ELSE 1)

\* variant: the tick barrier built for the competitors only, in every mode
BarrierPartiesTwo(b) == 2

\* Barrier::new(n) of main
BarrierParties(b) ==
    IF b = "recieved_inputs" THEN 2
    ELSE 2 + (IF training_mode THEN 0 ELSE 1)

\* threads the accept loop spawns before it serves connections itself
SpawnLimit == IF training_mode THEN 1 ELSE 2

\* variant: a spectator falls into the identification arm again
ArmEntryReidentify(ct) ==
    CASE ct = "Unknown" -> "u_read"
      [] ct = "CompetitorA" -> "lock_in"
      [] ct = "CompetitorB" -> "lock_in"
      [] ct = "Spectator" -> "u_read"

\* match connection_type: the arm a handler enters at the top of its loop
ArmEntry(ct) ==
    CASE ct = "Unknown" -> "u_read"
      [] ct = "CompetitorA" -> "lock_in"
      [] ct = "CompetitorB" -> "lock_in"
      [] ct = "Spectator" -> "bar2"

\* variant: a lock that does not exclude other threads
MutexLockNoExclusion(m) ==
    IF poisoned[m] THEN "poisoned" ELSE "ok"

\* Mutex::lock().unwrap() by a thread: "blocked" while another thread holds
\* the mutex, "poisoned" (unwrap panics) or "ok"
MutexLock(m) ==
    IF mutex[m] # 0 THEN "blocked"
    ELSE IF poisoned[m] THEN "poisoned"
    ELSE "ok"

\* variant: every competitor after the first becomes CompetitorB
IdentifyCompetitorNoLimit(n) ==
    IF n = 0 THEN [n |-> n + 1, type |-> "CompetitorA", accept |-> TRUE]
    ELSE [n |-> n + 1, type |-> "CompetitorB", accept |-> TRUE]

\* the COMPETITOR arm under the num_competitors lock
IdentifyCompetitor(n) ==
    IF n = 0 THEN [n |-> n + 1, type |-> "CompetitorA", accept |-> TRUE]
    ELSE IF n = 1 THEN [n |-> n + 1, type |-> "CompetitorB", accept |-> TRUE]
    ELSE [n |-> n, type |-> "Unknown", accept |-> FALSE]

\* variant: the spectator check is off by one
IdentifySpectatorOffByOne(n) ==
    IF n > 1 THEN [n |-> n, type |-> "Unknown", accept |-> FALSE]
    ELSE [n |-> 1, type |-> "Spectator", accept |-> TRUE]

\* the SPECTATOR arm under the num_spectators lock
IdentifySpectator(n) ==
    IF n > 0 THEN [n |-> n, type |-> "Unknown", accept |-> FALSE]
    ELSE [n |-> 1, type |-> "Spectator", accept |-> TRUE]

\* Duration - Duration: panics ("overflow when subtracting durations") when
\* the right side is larger; Duration is unsigned
DurationSub(a, b) ==
    IF b > a THEN [ok |-> FALSE, ms |-> 0] ELSE [ok |-> TRUE, ms |-> a - b]

\* variant: signed arithmetic, and an on-time round pays the debt off
PacingLeaky(debt, since_last_broadcast) ==
    LET remaining == GameTickDelay - since_last_broadcast IN
    IF remaining < 0
    THEN IF debt - remaining > CompetitorMaxDebt
         THEN [outcome |-> "return", debt |-> debt - remaining]
         ELSE [outcome |-> "continue", debt |-> debt - remaining]
    ELSE [outcome |-> "continue", debt |-> 0]

\* the pacing block of a competitor arm: outcome and the new timeout_debt
Pacing(debt, since_last_broadcast) ==
    LET remaining_sleep_time == DurationSub(GameTickDelay, since_last_broadcast) IN
    IF ~remaining_sleep_time.ok THEN [outcome |-> "panic", debt |-> debt]
    ELSE IF remaining_sleep_time.ms < 0
         THEN LET d == debt - remaining_sleep_time.ms IN
              IF d < 0 THEN [outcome |-> "panic", debt |-> debt]
              ELSE IF d > CompetitorMaxDebt THEN [outcome |-> "return", debt |-> d]
              ELSE [outcome |-> "continue", debt |-> d]
         ELSE [outcome |-> "continue", debt |-> debt]

\* ------------------------------------------------------------ serialization
\* the orders in which a HashMap with the keys ks can yield its entries: the
\* order follows the hasher's keys, which each process draws for itself
IterOrders(ks) ==
    {o \in [1..Cardinality(ks) -> ks] : \A i, j \in DOMAIN o : o[i] = o[j] => i = j}

\* a serialized HashMap: its entries, key and value, in iteration order
MapText(m, o) == [i \in DOMAIN o |-> <<o[i], m[o[i]]>>]

\* serde_json::to_string(&Gamestate): the fields in the order of the struct,
\* each HashMap in the order it iterates in
to_string(gs, oo, ob, os) ==
    <<gs.ticks_progressed, gs.max_game_ticks, MapText(gs.obstacles, oo),
      gs.obstacle_counter, gs.obstacle_spawn_timer, MapText(gs.bullets, ob),
      gs.bullet_counter, gs.player_a1, gs.player_a2, gs.player_b1, gs.player_b2,
      MapText(gs.scores, os)>>

\* the texts a process can serialize gs to
Snapshots(gs) ==
    {to_string(gs, oo, ob, os) : oo \in IterOrders(DOMAIN gs.obstacles),
                                ob \in IterOrders(DOMAIN gs.bullets),
                                os \in IterOrders(DOMAIN gs.scores)}

\* ------------------------------------------------------------------- Init
\* the state after main has built its shared objects, gs being the Gamestate
Boot(gs) ==
    /\ proc_alive = TRUE
    /\ next_conn = 1
    /\ threads_spawned = 0
    /\ main_conn = 0
    /\ pc = [c \in Conns |-> "idle"]
    /\ peer = [c \in Conns |-> "open"]
    /\ connection_type = [c \in Conns |-> "Unknown"]
    /\ timeout_debt = [c \in Conns |-> 0]
    /\ elapsed = [c \in Conns |-> 0]
    /\ snapshot = [c \in Conns |-> 0]
    /\ exit_msg = [c \in Conns |-> ""]
    /\ mutex = [m \in Mutexes |-> 0]
    /\ poisoned = [m \in Mutexes |-> FALSE]
    /\ num_competitors = 0
    /\ num_spectators = 0
    /\ input_a = <<>>
    /\ input_b = <<>>
    /\ gamestate = gs
    /\ in_tick = 0
    /\ bar_count = [b \in Barriers |-> 0]
    /\ bar_gen = [b \in Barriers |-> 0]
    /\ wgen = [c \in Conns |-> 0]
    /\ bcast = [c \in Conns |-> <<>>]
    /\ reg_order = <<>>
    /\ round_line = [c \in Conns |-> [round |-> 0, line |-> <<>>]]
    /\ used = [a |-> <<>>, b |-> <<>>, by |-> "Unknown"]
    /\ torn = FALSE
    /\ before = gs
    /\ drawn = NoDraw
    /\ waited = [p \in Players |-> gs[p].respawn_timer]
    /\ idle = TRUE
    /\ twin = gs
    /\ snap = <<<<>>, <<>>>>
    /\ stored = <<>>

Init ==
    /\ training_mode \in BOOLEAN
    /\ Boot(GamestateNew(ServerSeed, MaxGameTicks))

\* ---------------------------------------------------------------- effects
srv == <<training_mode, next_conn, threads_spawned>>
locals == <<connection_type, timeout_debt, elapsed, snapshot>>
shared == <<num_competitors, num_spectators, input_a, input_b, gamestate, in_tick>>
bars == <<bar_count, bar_gen, wgen>>
simhist == <<before, drawn, waited, idle, twin, snap, stored>>
hist == <<bcast, reg_order, round_line, used, torn, simhist>>

HeldBy(c) == {m \in Mutexes : mutex[m] = c}

\* the handler moves on; it acquires the mutexes in acq and drops those in rel
Goto(c, p, acq, rel) ==
    /\ pc' = [pc EXCEPT ![c] = p]
    /\ mutex' = [m \in Mutexes |-> IF m \in acq THEN c
                                   ELSE IF m \in rel THEN 0 ELSE mutex[m]]
    /\ UNCHANGED <<poisoned, main_conn, proc_alive, exit_msg>>

\* `return` from handle_client: guards are dropped, the stream is closed; on
\* the main thread the accept loop resumes
Return(c, msg) ==
    /\ pc' = [pc EXCEPT ![c] = "returned"]
    /\ exit_msg' = [exit_msg EXCEPT ![c] = msg]
    /\ mutex' = [m \in Mutexes |-> IF mutex[m] = c THEN 0 ELSE mutex[m]]
    /\ main_conn' = IF main_conn = c THEN 0 ELSE main_conn
    /\ UNCHANGED <<poisoned, proc_alive>>

\* a panic (expect / unwrap) unwinds the thread: the guards it holds are
\* dropped and their mutexes poisoned; a panic of the main thread ends the
\* process
Panic(c) ==
    /\ pc' = [pc EXCEPT ![c] = "panicked"]
    /\ mutex' = [m \in Mutexes |-> IF mutex[m] = c THEN 0 ELSE mutex[m]]
    /\ poisoned' = [m \in Mutexes |-> poisoned[m] \/ mutex[m] = c]
    /\ proc_alive' = (main_conn # c)
    /\ UNCHANGED <<main_conn, exit_msg>>

\* gamestate.compute_next_tick(&mut rng, input_a, input_b), called by a
\* handler of type by, and what the run remembers of the call
Call(ia, ib, rng, by) ==
    /\ gamestate' = ComputeNextTick(gamestate, ia, ib, rng)
    /\ used' = [a |-> ia, b |-> ib, by |-> by]
    /\ before' = gamestate
    /\ drawn' = rng
    /\ waited' = [p \in Players |-> IF Waits(gamestate[p]) THEN waited[p] + 1 ELSE 0]
    /\ idle' = (idle /\ ControlsOf(ia) = <<ControlsEmpty, ControlsEmpty>>
                     /\ ControlsOf(ib) = <<ControlsEmpty, ControlsEmpty>>)
    /\ UNCHANGED <<twin, snap, stored>>

\* results stream.read can give the handler of c
ReadOutcomes(c, texts) ==
    IF peer[c] = "open"
    THEN {[ok |-> TRUE, msg |-> m] : m \in ClientMsgs(texts)}
    ELSE {[ok |-> TRUE, msg |-> ClosedMsg], [ok |-> FALSE, msg |-> ClosedMsg]}

\* results stream.write can give the handler of c (TRUE: Ok)
WriteOutcomes(c) == IF peer[c] = "open" THEN {TRUE} ELSE {TRUE, FALSE}

\* ------------------------------------------------------------ accept loop
Accept ==
    /\ proc_alive /\ main_conn = 0 /\ next_conn <= NumConns
    /\ next_conn' = next_conn + 1
    /\ pc' = [pc EXCEPT ![next_conn] = "u_read"]
    /\ IF threads_spawned < SpawnLimit
       THEN threads_spawned' = threads_spawned + 1 /\ main_conn' = main_conn
       ELSE threads_spawned' = threads_spawned /\ main_conn' = next_conn
    /\ UNCHANGED <<training_mode, proc_alive, peer, locals, exit_msg, mutex,
                   poisoned, shared, bars, hist>>

\* listener.incoming() yields Err: the attempt is logged and dropped
AcceptErr ==
    /\ proc_alive /\ main_conn = 0 /\ next_conn <= NumConns
    /\ next_conn' = next_conn + 1
    /\ pc' = [pc EXCEPT ![next_conn] = "refused"]
    /\ peer' = [peer EXCEPT ![next_conn] = "closed"]
    /\ UNCHANGED <<training_mode, threads_spawned, main_conn, proc_alive,
                   locals, exit_msg, mutex, poisoned, shared, bars, hist>>

\* the client end goes away (disconnect or transport failure); the handler
\* can tell only at its next socket operation
ClientClose(c) ==
    /\ proc_alive
    /\ pc[c] \in {"u_read", "u_write", "read_in", "write", "write_locked"}
    /\ peer[c] = "open"
    /\ peer' = [peer EXCEPT ![c] = "closed"]
    /\ UNCHANGED <<srv, main_conn, proc_alive, pc, locals, exit_msg, mutex,
                   poisoned, shared, bars, hist>>

\* --------------------------------------------------------- identification
\* Unknown arm: read the first line and match msg.trim()
URead(c) ==
    /\ proc_alive /\ pc[c] = "u_read"
    /\ \E r \in ReadOutcomes(c, IdentTexts) :
         LET msg == Trim(ReadUntilNewline(r.msg)) IN
         IF ~r.ok THEN Panic(c)
         ELSE IF msg = <<"COMPETITOR">> THEN Goto(c, "u_lock_nc", {}, {})
         ELSE IF msg = <<"SPECTATOR">>
              THEN IF training_mode
                   THEN Return(c, "Training mode, no spectators allowed: disconnect")
                   ELSE Goto(c, "u_lock_ns", {}, {})
         ELSE Return(c, "Client failed to identify itself: disconnect")
    /\ UNCHANGED <<srv, peer, locals, shared, bars, hist>>

\* "COMPETITOR": lock num_competitors, take a slot or give up
ULockNc(c) ==
    /\ proc_alive /\ pc[c] = "u_lock_nc"
    /\ MutexLock("num_competitors") # "blocked"
    /\ LET r == IdentifyCompetitor(num_competitors) IN
       IF MutexLock("num_competitors") = "poisoned"
       THEN Panic(c) /\ UNCHANGED <<num_competitors, connection_type, reg_order>>
       ELSE /\ num_competitors' = r.n
            /\ connection_type' = IF r.accept
                                   THEN [connection_type EXCEPT ![c] = r.type]
                                   ELSE connection_type
            /\ reg_order' = Append(reg_order, c)
            /\ IF r.accept THEN Goto(c, "u_lock_gs", {"num_competitors"}, {})
               ELSE Return(c, "Reached max competitors already: disconnect")
    /\ UNCHANGED <<srv, peer, timeout_debt, elapsed, snapshot, num_spectators,
                   input_a, input_b, gamestate, in_tick, bars, bcast,
                   round_line, used, torn, simhist>>

\* "SPECTATOR" outside training mode: lock num_spectators, take the slot or give up
ULockNs(c) ==
    /\ proc_alive /\ pc[c] = "u_lock_ns"
    /\ MutexLock("num_spectators") # "blocked"
    /\ LET r == IdentifySpectator(num_spectators) IN
       IF MutexLock("num_spectators") = "poisoned"
       THEN Panic(c) /\ UNCHANGED <<num_spectators, connection_type>>
       ELSE /\ num_spectators' = r.n
            /\ connection_type' = IF r.accept
                                   THEN [connection_type EXCEPT ![c] = r.type]
                                   ELSE connection_type
            /\ IF r.accept THEN Goto(c, "u_lock_gs", {"num_spectators"}, {})
               ELSE Return(c, "Already have spectator: disconnect")
    /\ UNCHANGED <<srv, peer, timeout_debt, elapsed, snapshot, num_competitors,
                   input_a, input_b, gamestate, in_tick, bars, hist>>

\* variant: identification takes the two registration counters in opposite
\* orders (a competitor the spectators' after its own, a spectator the
\* competitors' after its own)
LockAtCrossed(p, ct) ==
    CASE p = "u_lock_gs" -> [m |-> IF ct = "Spectator" THEN "num_competitors"
                                   ELSE "num_spectators",
                             next |-> "u_write"]
      [] p = "lock_in" -> [m |-> IF ct = "CompetitorA" THEN "input_a" ELSE "input_b",
                           next |-> "read_in"]
      [] p = "lock_ib" -> [m |-> "input_b", next |-> "lock_ia"]
      [] p = "lock_ia" -> [m |-> "input_a", next |-> "lock_gs"]
      [] p = "lock_gs" -> [m |-> "gamestate", next |-> "tick"]
      [] p = "w_lock_gs" -> [m |-> "gamestate", next |-> "write_locked"]

\* gamestate.lock().unwrap() / input_x.lock().unwrap(): the mutex a handler
\* locks at each position, and where it goes next
LockAt(p, ct) ==
    CASE p = "u_lock_gs" -> [m |-> "gamestate", next |-> "u_write"]
      [] p = "lock_in" -> [m |-> IF ct = "CompetitorA" THEN "input_a" ELSE "input_b",
                           next |-> "read_in"]
      [] p = "lock_ib" -> [m |-> "input_b", next |-> "lock_ia"]
      [] p = "lock_ia" -> [m |-> "input_a", next |-> "lock_gs"]
      [] p = "lock_gs" -> [m |-> "gamestate", next |-> "tick"]
      [] p = "w_lock_gs" -> [m |-> "gamestate", next |-> "write_locked"]

LockStep(c) ==
    /\ proc_alive
    /\ pc[c] \in {"u_lock_gs", "lock_in", "lock_ib", "lock_ia", "lock_gs", "w_lock_gs"}
    /\ LET l == LockAt(pc[c], connection_type[c]) IN
       /\ MutexLock(l.m) # "blocked"
       /\ IF MutexLock(l.m) = "poisoned" THEN Panic(c)
          ELSE Goto(c, l.next, {l.m}, {})
    /\ UNCHANGED <<srv, peer, locals, shared, bars, hist>>

\* first broadcast after identification, written under the guards of the arm
UWrite(c) ==
    /\ proc_alive /\ pc[c] = "u_write"
    /\ torn' = (torn \/ in_tick # 0)
    /\ \E ok \in WriteOutcomes(c) :
         IF ok THEN Goto(c, ArmEntry(connection_type[c]), {}, HeldBy(c))
         ELSE Panic(c)
    /\ UNCHANGED <<srv, peer, locals, shared, bars, bcast, reg_order,
                   round_line, used, simhist>>

\* ------------------------------------------------------------------ rounds
\* competitor arms: read the round's input line into input_a / input_b under
\* its lock, then measure the time since the last broadcast
ReadIn(c) ==
    /\ proc_alive /\ pc[c] = "read_in"
    /\ round_line[c].round < MaxRounds
    /\ \E r \in ReadOutcomes(c, InputTexts) :
         LET line == ReadUntilNewline(r.msg)
             isA == connection_type[c] = "CompetitorA" IN
         IF ~r.ok
         THEN Panic(c) /\ UNCHANGED <<input_a, input_b, round_line, elapsed>>
         ELSE /\ input_a' = IF isA THEN line ELSE input_a
              /\ input_b' = IF isA THEN input_b ELSE line
              /\ round_line' = [round_line EXCEPT
                                  ![c] = [round |-> @.round + 1, line |-> line]]
              /\ IF training_mode
                 THEN elapsed' = elapsed
                      /\ Goto(c, "bar1", {}, {IF isA THEN "input_a" ELSE "input_b"})
                 ELSE (\E e \in ElapsedRange : elapsed' = [elapsed EXCEPT ![c] = e])
                      /\ Goto(c, "pace", {}, {IF isA THEN "input_a" ELSE "input_b"})
    /\ UNCHANGED <<srv, peer, connection_type, timeout_debt, snapshot,
                   num_competitors, num_spectators, gamestate, in_tick, bars,
                   bcast, reg_order, used, torn, simhist>>

\* competitor arms outside training mode: sleep out the tick or book the overrun
Pace(c) ==
    /\ proc_alive /\ pc[c] = "pace"
    /\ LET r == Pacing(timeout_debt[c], elapsed[c]) IN
       /\ timeout_debt' = [timeout_debt EXCEPT ![c] = r.debt]
       /\ IF r.outcome = "panic" THEN Panic(c)
          ELSE IF r.outcome = "return"
               THEN Return(c, "Competitor has taken too long: disconnect")
          ELSE Goto(c, "bar1", {}, {})
    /\ elapsed' = [elapsed EXCEPT ![c] = 0]
    /\ UNCHANGED <<srv, peer, connection_type, snapshot, shared, bars, hist>>

\* where a handler waits at a barrier, and where it goes once released
BarrierAt(p, ct) ==
    CASE p \in {"bar1", "wait1"} ->
           [b |-> "recieved_inputs", wait |-> "wait1",
            next |-> IF ct = "CompetitorA" THEN "lock_ib" ELSE "bar2"]
      [] p \in {"bar2", "wait2"} ->
           [b |-> "computed_next_tick", wait |-> "wait2",
            next |-> IF ct = "CompetitorA" THEN "ser" ELSE "w_lock_gs"]

\* Barrier::wait, arrival: the last party opens the barrier, the others wait
BarrierArrive(c) ==
    /\ proc_alive /\ pc[c] \in {"bar1", "bar2"}
    /\ LET w == BarrierAt(pc[c], connection_type[c]) IN
       IF bar_count[w.b] + 1 < BarrierParties(w.b)
       THEN /\ bar_count' = [bar_count EXCEPT ![w.b] = @ + 1]
            /\ wgen' = [wgen EXCEPT ![c] = bar_gen[w.b]]
            /\ bar_gen' = bar_gen
            /\ Goto(c, w.wait, {}, {})
       ELSE /\ bar_count' = [bar_count EXCEPT ![w.b] = 0]
            /\ bar_gen' = [bar_gen EXCEPT ![w.b] = @ + 1]
            /\ wgen' = wgen
            /\ Goto(c, w.next, {}, {})
    /\ UNCHANGED <<srv, peer, locals, shared, hist>>

\* Barrier::wait, release: a waiting party leaves once the generation changed
BarrierPass(c) ==
    /\ proc_alive /\ pc[c] \in {"wait1", "wait2"}
    /\ LET w == BarrierAt(pc[c], connection_type[c]) IN
       /\ bar_gen[w.b] # wgen[c]
       /\ Goto(c, w.next, {}, {})
    /\ wgen' = [wgen EXCEPT ![c] = 0]
    /\ UNCHANGED <<srv, peer, locals, shared, bar_count, bar_gen, hist>>

\* CompetitorA, holding input_b, input_a and gamestate: compute_next_tick
\* starts mutating the Gamestate
TickBegin(c) ==
    /\ proc_alive /\ pc[c] = "tick"
    /\ \E rng \in Draws(gamestate) : Call(input_a, input_b, rng, connection_type[c])
    /\ in_tick' = c
    /\ Goto(c, "tick_end", {}, {})
    /\ UNCHANGED <<srv, peer, locals, num_competitors, num_spectators, input_a,
                   input_b, bars, bcast, reg_order, round_line, torn>>

\* compute_next_tick returns and the three guards are dropped
TickEnd(c) ==
    /\ proc_alive /\ pc[c] = "tick_end"
    /\ in_tick' = 0
    /\ Goto(c, "bar2", {}, {"input_b", "input_a", "gamestate"})
    /\ UNCHANGED <<srv, peer, locals, num_competitors, num_spectators, input_a,
                   input_b, gamestate, bars, hist>>

\* CompetitorA: serde_json::to_string(&*gamestate) locks the Mutex for the
\* time of the serialization
Serialize(c) ==
    /\ proc_alive /\ pc[c] = "ser"
    /\ MutexLock("gamestate") # "blocked"
    /\ IF MutexLock("gamestate") = "poisoned"
       THEN Panic(c) /\ UNCHANGED <<snapshot, torn>>
       ELSE /\ snapshot' = [snapshot EXCEPT ![c] = gamestate.ticks_progressed]
            /\ torn' = (torn \/ in_tick # 0)
            /\ Goto(c, "write", {}, {})
    /\ UNCHANGED <<srv, peer, connection_type, timeout_debt, elapsed, shared,
                   bars, bcast, reg_order, round_line, used, simhist>>

\* CompetitorA: write the round's broadcast
Write(c) ==
    /\ proc_alive /\ pc[c] = "write"
    /\ \E ok \in WriteOutcomes(c) :
         IF ok
         THEN /\ bcast' = [bcast EXCEPT ![c] = Append(@, snapshot[c])]
              /\ Goto(c, ArmEntry(connection_type[c]), {}, {})
         ELSE Panic(c) /\ bcast' = bcast
    /\ snapshot' = [snapshot EXCEPT ![c] = 0]
    /\ UNCHANGED <<srv, peer, connection_type, timeout_debt, elapsed, shared,
                   bars, reg_order, round_line, used, torn, simhist>>

\* CompetitorB / Spectator: serialize and write the round's broadcast under
\* the gamestate guard
WriteLocked(c) ==
    /\ proc_alive /\ pc[c] = "write_locked"
    /\ torn' = (torn \/ in_tick # 0)
    /\ \E ok \in WriteOutcomes(c) :
         IF ok
         THEN /\ bcast' = [bcast EXCEPT ![c] = Append(@, gamestate.ticks_progressed)]
              /\ Goto(c, ArmEntry(connection_type[c]), {}, {"gamestate"})
         ELSE Panic(c) /\ bcast' = bcast
    /\ UNCHANGED <<srv, peer, locals, shared, bars, reg_order, round_line, used,
                   simhist>>

\* ------------------------------------------------------------------- Next
Handler(c) ==
    \/ URead(c)
    \/ ULockNc(c)
    \/ ULockNs(c)
    \/ LockStep(c)
    \/ UWrite(c)
    \/ ReadIn(c)
    \/ Pace(c)
    \/ BarrierArrive(c)
    \/ BarrierPass(c)
    \/ TickBegin(c)
    \/ TickEnd(c)
    \/ Serialize(c)
    \/ Write(c)
    \/ WriteLocked(c)

Next ==
    \/ Accept
    \/ AcceptErr
    \/ \E c \in Conns : ClientClose(c)
    \/ \E c \in Conns : Handler(c)

Spec == Init /\ [][Next]_vars

\* the server started with --max-game-ticks 0: the match is over after tick 1
ShortInit ==
    /\ training_mode \in BOOLEAN
    /\ Boot(GamestateNew(ServerSeed, 0))

ShortSpec == ShortInit /\ [][Next]_vars

\* the scheduler runs every handler thread and the accept loop; a client
\* with an open connection eventually sends its line
\* the steps of the handler of c outside the call of the engine
HandlerSteps(c) ==
    \/ URead(c)
    \/ ULockNc(c)
    \/ ULockNs(c)
    \/ LockStep(c)
    \/ UWrite(c)
    \/ ReadIn(c)
    \/ Pace(c)
    \/ BarrierArrive(c)
    \/ BarrierPass(c)
    \/ TickEnd(c)
    \/ Serialize(c)
    \/ Write(c)
    \/ WriteLocked(c)

\* the handler of c enters compute_next_tick: the step TickBegin(c) as seen on
\* pc.  compute_next_tick is total, so the step is enabled exactly when its
\* guard holds, and no other step takes pc[c] from "tick" to "tick_end"
TickEntered(c) ==
    /\ proc_alive /\ pc[c] = "tick"
    /\ pc' = [pc EXCEPT ![c] = "tick_end"]

\* Weak fairness of Handler(c): a handler stands before one kind of step at a
\* time, so the fairness of the whole is the fairness of its kinds
FairSpec ==
    /\ Spec
    /\ WF_vars(Accept)
    /\ \A c \in Conns : WF_vars(HandlerSteps(c)) /\ WF_pc(TickEntered(c))

\* -------------------------------------------------- runs of the engine
\* The engine alone: compute_next_tick called tick after tick, as CompetitorA's
\* handler does, with no connection modelled.  Input lines of these runs:
\* neutral controls, controls in use (one value to clamp), a text cut short.
LineNeutral ==
    <<"controls_1", "0", "0", "0", "false", "controls_2", "0", "0", "0", "false">>
LineActive ==
    <<"controls_1", "1", "2", "0", "true", "controls_2", "-1", "0", "1", "false">>
LineCut == <<"controls_1", "0", "1", "0", "true">>
EngineLinesA == {LineNeutral, LineActive, LineCut}
EngineLinesB == {LineNeutral, LineActive}

EngineTick(limit) ==
    /\ gamestate.ticks_progressed < limit
    /\ \E ia \in EngineLinesA, ib \in EngineLinesB :
         \E rng \in Draws(gamestate) : Call(ia, ib, rng, "CompetitorA")
    /\ UNCHANGED <<srv, main_conn, proc_alive, pc, peer, locals, exit_msg, mutex,
                   poisoned, num_competitors, num_spectators, input_a, input_b,
                   in_tick, bars, bcast, reg_order, round_line, torn>>

\* a match from Gamestate::new
SimInit ==
    /\ training_mode = TRUE
    /\ \E seed \in Seeds : Boot(GamestateNew(seed, MaxGameTicks))

SimNext == EngineTick(MaxSimTicks)

SimSpec == SimInit /\ [][SimNext]_vars

\* A tick from a Gamestate in mid-match.  The Gamestates are well formed:
\* guids below their counters, timers within one past their maxima, ammo at
\* most AMMO_MAX, obstacles at rest at a spawn point, bullets on the line of
\* their velocity through prev_position.
TickStart == 2 * MAX_OBSTACLE_SPAWN_TIMER

PlayerWith(team, position, velocity, is_dead, respawn_timer, ammo, reload_timer, fire_rate_timer) ==
    [team |-> team, position |-> position, velocity |-> velocity, rot_y |-> 0,
     ammo |-> ammo, reload_timer |-> reload_timer,
     fire_rate_timer |-> fire_rate_timer, is_dead |-> is_dead,
     respawn_timer |-> respawn_timer]

\* player_a1: at a spawn point, outside the arena, across its boundary, on
\* an obstacle's place; alive with the timers around their maxima, or dead
FamilyA1 ==
    {PlayerWith("A", <<500, 500, 500>>, <<0, 0, 0>>, FALSE, 0, 3, 0, 0),
     PlayerWith("A", <<2500, 0, 0>>, <<0, 0, 0>>, FALSE, 0, 3, 61, 11),
     PlayerWith("A", <<2500, 0, 0>>, <<0, 0, 0>>, FALSE, 0, 2, 61, 11),
     PlayerWith("A", <<2500, 0, 0>>, <<0, 0, 0>>, FALSE, 0, 0, 5, 11),
     PlayerWith("A", <<2500, 0, 0>>, <<0, 0, 0>>, FALSE, 0, 3, 5, 10),
     PlayerWith("A", <<2500, 0, 0>>, <<0, 0, 0>>, FALSE, 0, 1, 5, 4),
     PlayerWith("A", <<1950, 0, 0>>, <<20, 0, 0>>, FALSE, 0, 3, 5, 4),
     PlayerWith("A", <<500, 500, 500>>, <<0, 0, 0>>, TRUE, 0, 3, 1, 1),
     PlayerWith("A", <<1000, 1000, 1000>>, <<0, 0, 0>>, TRUE, 0, 3, 1, 1),
     PlayerWith("A", <<2500, 0, 0>>, <<0, 0, 0>>, TRUE, 40, 2, 7, 0),
     PlayerWith("A", <<2500, 0, 0>>, <<0, 0, 0>>, TRUE, 80, 2, 7, 0),
     PlayerWith("A", <<2500, 0, 0>>, <<10, 0, 0>>, TRUE, 81, 2, 7, 0)}

\* player_b1: in the way of the bullets below, next to player_a1, or at an
\* obstacle's place
FamilyB1 ==
    {PlayerWith("B", <<-2500, 0, 0>>, <<0, 0, 0>>, FALSE, 0, 3, 20, 5),
     PlayerWith("B", <<-2500, 0, 0>>, <<0, 0, 0>>, TRUE, 10, 3, 20, 5),
     PlayerWith("B", <<2500, 150, 0>>, <<0, 0, 0>>, FALSE, 0, 3, 20, 5),
     PlayerWith("B", <<1000, 1000, 1000>>, <<0, 0, 0>>, FALSE, 0, 3, 0, 0),
     PlayerWith("B", <<-2500, 0, 0>>, <<0, 0, 0>>, TRUE, 81, 3, 20, 5)}

\* two bullets seven moves out of their muzzle and just short of
\* player_b1's place, one of each team, and one about to leave the obstacle area
FamilyBullets ==
    [g \in 0..2 |->
       IF g < 2
       THEN [team |-> IF g = 0 THEN "A" ELSE "B", guid |-> g,
             position |-> <<-2615, 0, 0>>, prev_position |-> <<-2790, 0, 0>>,
             velocity |-> <<25, 0>>]
       ELSE [team |-> "A", guid |-> g,
             position |-> <<2990, 0, 500>>, prev_position |-> <<2790, 0, 500>>,
             velocity |-> <<25, 0>>]]

FamilyBulletSets == {{}, {0}, {1}, {0, 1}, {2}}

FamilyObstacles ==
    [g \in 0..1 |->
       [guid |-> g, position |-> <<1000, 1000, 1000>>, velocity |-> <<0, 0, 0>>,
        radius |-> IF g = 0 THEN 150 ELSE 199]]

\* the Gamestates with player_a1, player_b1, bullets and obstacle timer as given
TickStatesOf(a1s, b1s, bss, timer) ==
    {[ticks_progressed |-> TickStart,
      max_game_ticks |-> MaxGameTicks,
      obstacles |-> MapRemove(FamilyObstacles, DOMAIN FamilyObstacles \ os),
      obstacle_counter |-> 2,
      obstacle_spawn_timer |-> timer,
      bullets |-> MapRemove(FamilyBullets, DOMAIN FamilyBullets \ bs),
      bullet_counter |-> 3,
      player_a1 |-> a1,
      player_a2 |-> PlayerWith("A", <<0, 2600, 0>>, <<0, 0, 0>>, FALSE, 0, 3, 30, 11),
      player_b1 |-> b1,
      player_b2 |-> PlayerWith("B", <<0, -2600, 0>>, <<0, 0, 0>>, TRUE, 40, 1, 30, 2),
      scores |-> [A |-> 0, B |-> 0]] :
       a1 \in a1s, b1 \in b1s,
       os \in SUBSET DOMAIN FamilyObstacles, bs \in bss}

\* player_a1 of the Gamestates in which an obstacle is due: at a spawn
\* point, or ready to fire
FamilyA1Due ==
    {PlayerWith("A", <<500, 500, 500>>, <<0, 0, 0>>, FALSE, 0, 3, 0, 0),
     PlayerWith("A", <<2500, 0, 0>>, <<0, 0, 0>>, FALSE, 0, 3, 61, 11)}

\* the obstacle timer mid-way, and at its maximum (the next tick spawns one)
TickStates ==
    TickStatesOf(FamilyA1, FamilyB1, FamilyBulletSets, 5)
      \cup TickStatesOf(FamilyA1Due,
                        {PlayerWith("B", <<-2500, 0, 0>>, <<0, 0, 0>>, FALSE, 0, 3, 20, 5)},
                        {{}, {2}}, MAX_OBSTACLE_SPAWN_TIMER)

TickInit ==
    /\ training_mode = TRUE
    /\ \E gs \in TickStates : Boot(gs)

TickNext == EngineTick(TickStart + MaxTickSteps)

TickSpec == TickInit /\ [][TickNext]_vars

\* Two runs of the engine side by side: both start from the same Gamestate
\* and get the same lines and the same draws in every tick; each serializes
\* its Gamestate after the tick.
TwinCall(ia, ib, rng) ==
    /\ \E run \in {[r \in 1..2 |-> ComputeNextTick(<<gamestate, twin>>[r], ia, ib, rng)]} :
         gamestate' = run[1] /\ twin' = run[2]
    /\ used' = [a |-> ia, b |-> ib, by |-> "CompetitorA"]
    /\ before' = gamestate
    /\ drawn' = rng
    /\ \E t1 \in Snapshots(gamestate'), t2 \in Snapshots(twin') : snap' = <<t1, t2>>
    /\ UNCHANGED <<waited, idle, stored>>

TwinTick(limit) ==
    /\ gamestate.ticks_progressed < limit
    /\ \E ia \in EngineLinesA, ib \in EngineLinesB :
         \E rng \in Draws(gamestate) : TwinCall(ia, ib, rng)
    /\ UNCHANGED <<srv, main_conn, proc_alive, pc, peer, locals, exit_msg, mutex,
                   poisoned, num_competitors, num_spectators, input_a, input_b,
                   in_tick, bars, bcast, reg_order, round_line, torn>>

TwinNext == TwinTick(MaxTwinTicks)

TwinSpec == SimInit /\ [][TwinNext]_vars

\* Controls::validate_raw_controls on its own, called once on raw values on
\* both sides of the limits and on them
RawValues == {-2, -1, 0, 1, 2}
RawControls ==
    [rot_y : RawValues, forward_back : RawValues, up_down : RawValues,
     shoot : BOOLEAN]

Validate ==
    /\ stored = <<>>
    /\ \E c1 \in RawControls, c2 \in RawControls :
         LET raw == [controls_1 |-> c1, controls_2 |-> c2] IN
         stored' = [raw |-> raw, controls |-> validate_raw_controls(raw)]
    /\ UNCHANGED <<srv, main_conn, proc_alive, pc, peer, locals, exit_msg, mutex,
                   poisoned, shared, bars, bcast, reg_order, round_line, used,
                   torn, before, drawn, waited, idle, twin, snap>>

ValidateInit ==
    /\ training_mode = TRUE
    /\ Boot(GamestateNew(ServerSeed, MaxGameTicks))

ValidateSpec == ValidateInit /\ [][Validate]_vars

TypeOK ==
    /\ pc \in [Conns -> {"idle", "refused", "returned", "panicked", "u_read",
                         "u_lock_nc", "u_lock_ns", "u_lock_gs", "u_write",
                         "lock_in", "read_in", "pace", "bar1", "wait1",
                         "lock_ib", "lock_ia", "lock_gs", "tick", "tick_end",
                         "bar2", "wait2", "ser", "write", "w_lock_gs",
                         "write_locked"}]
    /\ connection_type \in [Conns -> ConnectionType]
    /\ mutex \in [Mutexes -> 0..NumConns]
    /\ num_competitors \in 0..2
    /\ num_spectators \in 0..1

\* ================================================================= claims
OfType(t) == {c \in Conns : connection_type[c] = t}
Competitors == OfType("CompetitorA") \cup OfType("CompetitorB")
Ended(c) == pc[c] \in {"returned", "panicked"}
\* positions between leaving the "tick computed" barrier and the broadcast
PostBar2 == {"ser", "write", "w_lock_gs", "write_locked"}
Ticks == gamestate.ticks_progressed

\* C1: every round has exactly one compute_next_tick, made by the
\* CompetitorA handler between the opening of the "inputs received" barrier
\* and the opening of the "tick computed" barrier; the tick of round n is
\* complete before any thread serializes the Gamestate for the broadcast of
\* round n, and no serialization runs while a tick is being computed.
Thm_C1 ==
    /\ ~torn
    /\ used.by \in {"Unknown", "CompetitorA"}
    /\ in_tick # 0 => connection_type[in_tick] = "CompetitorA"
    /\ bar_gen["computed_next_tick"] <= Ticks
    /\ Ticks <= bar_gen["recieved_inputs"]
    /\ bar_gen["recieved_inputs"] <= bar_gen["computed_next_tick"] + 1
    /\ \A c \in Conns :
         pc[c] \in PostBar2 =>
           /\ Ticks >= Len(bcast[c]) + 1
           /\ in_tick # 0 => Ticks > Len(bcast[c]) + 1

\* a spectator has written a round's broadcast of a tick CompetitorA computed
Wit_C1 ==
    \E c \in OfType("Spectator") :
      Len(bcast[c]) >= 1 /\ used.by = "CompetitorA" /\ Ticks >= 1

\* C2: the i-th per-round broadcast on a connection carries the Gamestate of
\* the i-th tick, so consecutive broadcasts differ by one in ticks_progressed.
Claim_C2 ==
    \A c \in Conns : \A i \in 1..Len(bcast[c]) : bcast[c][i] = i

\* C3: the Gamestate changes only in a round whose "inputs received" barrier
\* has opened, after both competitor handlers stored that round's line, and
\* the tick is computed from exactly those two lines; the barrier opens only
\* when the second competitor arrives.
Thm_C3 ==
    [][ /\ gamestate' # gamestate =>
             \E a \in OfType("CompetitorA") : \E b \in OfType("CompetitorB") :
               /\ bar_gen["recieved_inputs"] = Ticks + 1
               /\ round_line[a].round = Ticks + 1
               /\ round_line[b].round = Ticks + 1
               /\ used'.a = round_line[a].line
               /\ used'.b = round_line[b].line
        /\ bar_gen'["recieved_inputs"] # bar_gen["recieved_inputs"] =>
             \E a \in OfType("CompetitorA") : \E b \in OfType("CompetitorB") :
               /\ {pc[a], pc[b]} = {"bar1", "wait1"}
               /\ round_line[a].round = bar_gen'["recieved_inputs"]
               /\ round_line[b].round = bar_gen'["recieved_inputs"]
               /\ gamestate' = gamestate
      ]_vars

\* the second tick has been computed from two different lines
Wit_C3 ==
    /\ Ticks = 2
    /\ used.a = ERR
    /\ used.b \in InputTexts

\* C4: once a competitor's handler has ended, the threads waiting at a
\* barrier are released (or the process ends): eventually no thread waits at
\* the "inputs received" or the "tick computed" barrier.
Claim_C4 ==
    (\E c \in Competitors : Ended(c))
      ~> (~proc_alive \/ \A d \in Conns : pc[d] \notin {"wait1", "wait2"})

\* C5 as stated: outside training mode, with both competitors connected,
\* their round's input submitted, both waiting at the "tick computed" barrier
\* and no spectator registered, the competitors get past the barrier (unless
\* a spectator registers after all).
Claim_C5 ==
    ( /\ ~training_mode
      /\ num_spectators = 0
      /\ Cardinality(Competitors) = 2
      /\ \A c \in Competitors :
           pc[c] = "wait2" /\ peer[c] = "open" /\ round_line[c].line # ERR )
      ~> (num_spectators > 0 \/ \E c \in Competitors : pc[c] # "wait2")

\* C5 as amended: outside training mode a competitor gets past the "tick
\* computed" barrier, and sends a round's broadcast, only in a round in which
\* a registered spectator arrived at that barrier too.
Thm_C5 ==
    \A c \in Competitors :
      (Len(bcast[c]) > 0 \/ pc[c] \in PostBar2) =>
        \/ training_mode
        \/ \E s \in OfType("Spectator") :
             Len(bcast[s]) > 0 \/ pc[s] \in PostBar2 \cup {"wait2", "panicked"}

\* outside training mode both competitors have sent the second round's broadcast
Wit_C5 ==
    /\ ~training_mode
    /\ Cardinality(Competitors) = 2
    /\ \A c \in Competitors : Len(bcast[c]) = 2

\* C6: outside training mode a late input adds its overrun to timeout_debt
\* and the handler goes on to the barrier unless the debt now exceeds
\* competitor_max_debt.
Claim_C6 ==
    [][ \A c \in Conns :
          (pc[c] = "pace" /\ pc'[c] # "pace" /\ elapsed[c] > GameTickDelay) =>
            /\ timeout_debt'[c] = timeout_debt[c] + (elapsed[c] - GameTickDelay)
            /\ timeout_debt'[c] <= CompetitorMaxDebt => pc'[c] = "bar1"
      ]_vars

\* C7: no step lowers a connection's timeout_debt.
Thm_C7 ==
    [][ \A c \in Conns : timeout_debt'[c] >= timeout_debt[c] ]_vars

\* a competitor went through the pacing of two rounds
Wit_C7 ==
    \E c \in Competitors :
      ~training_mode /\ round_line[c].round = 2 /\ pc[c] = "bar1"

\* C8: the first connection to register as COMPETITOR is CompetitorA, the
\* second CompetitorB, every later one is turned away and its handler
\* returns; there is at most one CompetitorA, at most one CompetitorB, and
\* num_competitors <= 2.
Thm_C8 ==
    /\ num_competitors <= 2
    /\ Cardinality(OfType("CompetitorA")) <= 1
    /\ Cardinality(OfType("CompetitorB")) <= 1
    /\ \A i \in 1..Len(reg_order) :
         /\ i = 1 => connection_type[reg_order[i]] = "CompetitorA"
         /\ i = 2 => connection_type[reg_order[i]] = "CompetitorB"
         /\ i >= 3 => /\ connection_type[reg_order[i]] = "Unknown"
                      /\ pc[reg_order[i]] = "returned"

\* a third connection asked for a competitor slot
Wit_C8 ==
    /\ Len(reg_order) = 3
    /\ exit_msg[reg_order[3]] = "Reached max competitors already: disconnect"

\* C9: there is never more than one spectator and none in training mode; a
\* handler that turns its connection away at identification (spectator in
\* training mode, second spectator, unknown first line) leaves
\* num_competitors, num_spectators and the Gamestate as they were.
Thm_C9 ==
    /\ [](/\ Cardinality(OfType("Spectator")) <= 1
          /\ num_spectators <= 1
          /\ training_mode => (OfType("Spectator") = {} /\ num_spectators = 0))
    /\ [][ \A c \in Conns :
             (pc[c] \in {"u_read", "u_lock_ns"} /\ pc'[c] = "returned") =>
               /\ UNCHANGED <<num_competitors, num_spectators, gamestate>>
               /\ connection_type'[c] = "Unknown"
         ]_vars

\* a second spectator was turned away
Wit_C9 ==
    /\ num_spectators = 1
    /\ \E c \in Conns : exit_msg[c] = "Already have spectator: disconnect"

\* C10: a connection_type that has left Unknown never changes again.
Thm_C10 ==
    [][ \A c \in Conns :
          connection_type[c] # "Unknown" => connection_type'[c] = connection_type[c]
      ]_vars

\* identified connections went through a whole round
Wit_C10 ==
    /\ \E c \in OfType("Spectator") : Len(bcast[c]) = 1 /\ pc[c] = "wait2"
    /\ \E c \in OfType("CompetitorB") : round_line[c].round = 2

\* ------------------------------------------------- claims on the engine
\* a compute_next_tick call has been made in this run
Ticked == gamestate.ticks_progressed > before.ticks_progressed
\* the Gamestate after each stage of the last compute_next_tick call
Stages == TickStages(before, used.a, used.b, drawn)
\* the controls the last call gave each player
ControlsUsed ==
    [player_a1 |-> ControlsOf(used.a)[1], player_a2 |-> ControlsOf(used.a)[2],
     player_b1 |-> ControlsOf(used.b)[1], player_b2 |-> ControlsOf(used.b)[2]]

\* C11: the out-of-bounds check that ends a tick kills (is_dead = true,
\* respawn_timer = 0) exactly the players whose sphere is not fully inside the
\* arena cube, and leaves a player whose sphere is fully inside as it was.
Claim_C11 ==
    Ticked =>
      LET checked == Stages.collided_bullets IN
      \A p \in Players :
        IF inside_game_area(checked[p].position, PLAYER_RADIUS)
        THEN gamestate[p] = checked[p]
        ELSE gamestate[p] = Kill(checked[p])

\* C12: in a tick that a player enters dead with respawn_timer not past
\* MAX_PLAYER_RESPAWN_TIMER, only its respawn_timer changes, advancing by
\* one; position, velocity, rot_y, ammo, reload_timer, fire_rate_timer and
\* is_dead stay as they were.
Claim_C12 ==
    Ticked =>
      \A p \in Players :
        Waits(before[p]) =>
          gamestate[p] = [before[p] EXCEPT !.respawn_timer = @ + 1]

\* C13: a dead player is respawned once its respawn_timer has passed
\* MAX_PLAYER_RESPAWN_TIMER, so with ticks being computed it never waits for
\* its respawn more than MAX_PLAYER_RESPAWN_TIMER + 1 ticks in a row.
Claim_C13 ==
    \A p \in Players : waited[p] <= MAX_PLAYER_RESPAWN_TIMER + 1

HitsOf(st) ==
    UNION {{<<p, b>> : b \in BulletsHit(st.collided_obstacles, p)} : p \in Players}
BumpsOf(st) ==
    UNION {{<<p, o>> : o \in ObstaclesHit(st.collided_players, p)} : p \in Players}
OtherTeam(t) == IF t = "A" THEN "B" ELSE "A"

FiredIn(st) ==
    {p \in Players :
       /\ ~Waits(before[p])
       /\ ControlsUsed[p].shoot
       /\ PlayerAtShot(before[p], ControlsUsed[p], drawn.respawn[p]).ammo > 0
       /\ PlayerAtShot(before[p], ControlsUsed[p], drawn.respawn[p]).fire_rate_timer
            > FIRE_RATE_TIMER_MAX}
\* the bullets inserted by the player loop of that tick
NewBullets(st) ==
    {st.players.bullets[b] : b \in DOMAIN st.players.bullets \ DOMAIN before.bullets}

Claim_C19 ==
    (idle /\ gamestate.ticks_progressed = MAX_OBSTACLE_SPAWN_TIMER + 1) =>
      /\ Cardinality(DOMAIN gamestate.obstacles) >= 1
      /\ \A p \in Players :
           /\ ~gamestate[p].is_dead
           /\ gamestate[p].respawn_timer = 0
           /\ gamestate[p].ammo = AMMO_MAX
      /\ \A t \in Team : gamestate.scores[t] = 0

\* a line as the tick takes it: one that FromStr rejects counts as a line of
\* neutral controls
Neutralized(line) == IF FromStr(line).ok THEN line ELSE LineNeutral

\* C20: a round line that is not the JSON of two control objects gives both
\* avatars of that competitor neutral controls in the tick (all zero, no
\* shot) while the other competitor's line is applied as sent; and the
\* handler of a competitor whose line was rejected neither returns nor
\* panics on that account: with its client still connected (and outside the
\* pacing block, with no Mutex poisoned by another thread) it goes on to the
\* next round.  (The Gamestate and the record of the call change only in the
\* step that makes the call, which leaves in_tick set: the tick is compared
\* in the state after that step.)
Thm_C20 ==
    /\ [](in_tick # 0 =>
            /\ ~FromStr(used.a).ok => ControlsOf(used.a) = <<ControlsEmpty, ControlsEmpty>>
            /\ ~FromStr(used.b).ok => ControlsOf(used.b) = <<ControlsEmpty, ControlsEmpty>>
            /\ gamestate = ComputeNextTick(before, Neutralized(used.a),
                                           Neutralized(used.b), drawn))
    /\ [][ \A c \in Competitors :
             ( /\ round_line[c].round > 0
               /\ ~FromStr(round_line[c].line).ok
               /\ peer[c] = "open"
               /\ ~Ended(c)
               /\ pc[c] # "pace"
               /\ \A m \in Mutexes : ~poisoned[m] )
               => ~Ended(c)'
         ]_vars

\* tick 1 was computed from a rejected line of CompetitorA and a line of
\* CompetitorB that moves player_b1; CompetitorA's handler, its client still
\* connected, has sent the broadcast and reads the line of round 2
Wit_C20 ==
    /\ Ticks = 1
    /\ ~FromStr(used.a).ok
    /\ FromStr(used.b).ok
    /\ gamestate.player_a1.velocity = <<0, 0, 0>>
    /\ gamestate.player_b1.velocity # <<0, 0, 0>>
    /\ \E c \in OfType("CompetitorA") :
         peer[c] = "open" /\ pc[c] = "read_in" /\ Len(bcast[c]) = 1

\* ------------------------------------------------------------------- C21
\* C21: ticks_progressed never exceeds max_game_ticks + 1: once it is past
\* max_game_ticks no further compute_next_tick call is made.
Claim_C21 ==
    gamestate.ticks_progressed <= gamestate.max_game_ticks + 1

\* ------------------------------------------------------------------- C22
\* positions at which a handler is inside stream.read or stream.write
SocketOps == {"u_read", "u_write", "read_in", "write", "write_locked"}

\* C22: a handler that is inside a socket read or write holds no mutex.
Claim_C22 ==
    \A c \in Conns : pc[c] \in SocketOps => HeldBy(c) = {}

\* ------------------------------------------------------------------- C23
\* keys of a guid map are the guids of its entities, all below the counter
GuidsBelow(map, counter) ==
    \A g \in DOMAIN map : map[g].guid = g /\ g < counter

\* over a tick the counter does not decrease, the entities inserted took the
\* guids from the old counter up to the new one, and no key below the old
\* counter is new
GuidsFresh(old_map, old_counter, map, counter) ==
    /\ counter >= old_counter
    /\ DOMAIN map \ DOMAIN old_map \subseteq old_counter..(counter - 1)

\* C23: in every Gamestate every obstacle and every bullet is stored under
\* its own guid, which is below the counter of its class; a tick never lowers
\* a counter, gives each entity it inserts a guid from the old counter on,
\* and assigns no guid below the old counter, so no guid is used twice.
Thm_C23 ==
    /\ GuidsBelow(gamestate.obstacles, gamestate.obstacle_counter)
    /\ GuidsBelow(gamestate.bullets, gamestate.bullet_counter)
    /\ GuidsFresh(before.obstacles, before.obstacle_counter,
                  gamestate.obstacles, gamestate.obstacle_counter)
    /\ GuidsFresh(before.bullets, before.bullet_counter,
                  gamestate.bullets, gamestate.bullet_counter)

\* a tick inserted an obstacle and a bullet under the old counters and
\* removed the bullet that left the obstacle area
Wit_C23 ==
    /\ Ticked
    /\ before.obstacle_counter \in DOMAIN gamestate.obstacles
    /\ gamestate.obstacle_counter = before.obstacle_counter + 1
    /\ before.bullet_counter \in DOMAIN gamestate.bullets
    /\ gamestate.bullet_counter = before.bullet_counter + 1
    /\ DOMAIN before.bullets \ DOMAIN gamestate.bullets # {}

\* ------------------------------------------------------------------- C24
\* C24: two runs from the same Gamestate that are given the same draws and
\* the same input lines have serialized identical snapshots after each tick.
Claim_C24 ==
    snap[1] = snap[2]

\* ------------------------------------------------------------------- C25
\* C25: every player's ammo is between 0 and AMMO_MAX in every Gamestate.
Thm_C25 ==
    \A p \in Players : gamestate[p].ammo \in 0..AMMO_MAX

\* a live player without ammo, its cooldown over, pulled the trigger and
\* still has no ammo
Wit_C25 ==
    /\ Ticked
    /\ \E p \in Players :
         /\ ~before[p].is_dead
         /\ before[p].ammo = 0
         /\ before[p].fire_rate_timer > FIRE_RATE_TIMER_MAX
         /\ ControlsUsed[p].shoot
         /\ gamestate[p].ammo = 0

\* ------------------------------------------------------------------- C26
\* C26: each of rot_y, forward_back and up_down of both Controls is the raw
\* value if that lies in [-1, 1], -1 if it is below and 1 if it is above;
\* shoot is the raw shoot.
Thm_C26 ==
    stored # <<>> =>
      \A k \in 1..2 :
        LET raw == IF k = 1 THEN stored.raw.controls_1 ELSE stored.raw.controls_2
            got == stored.controls[k]
            limited(x, y) == /\ x < -1 => y = -1
                             /\ x > 1 => y = 1
                             /\ (-1 <= x /\ x <= 1) => y = x
        IN /\ limited(raw.rot_y, got.rot_y)
           /\ limited(raw.forward_back, got.forward_back)
           /\ limited(raw.up_down, got.up_down)
           /\ got.shoot = raw.shoot

\* one object with a value above, one below and one inside the range, the
\* other object on the limits
Wit_C26 ==
    /\ stored # <<>>
    /\ stored.raw.controls_1 =
         [rot_y |-> 2, forward_back |-> -2, up_down |-> 0, shoot |-> TRUE]
    /\ stored.controls[1] =
         [rot_y |-> 1, forward_back |-> -1, up_down |-> 0, shoot |-> TRUE]
    /\ stored.raw.controls_2 =
         [rot_y |-> -1, forward_back |-> 1, up_down |-> 1, shoot |-> FALSE]
    /\ stored.controls[2] = stored.raw.controls_2

Claim_C29 ==
    (\E c \in Conns : exit_msg[c] = "Client failed to identify itself: disconnect")
      ~> (~proc_alive \/ next_conn > NumConns)

\* ------------------------------------------------------------------- C30
\* the mutex a handler is about to lock at its position ("" where it locks none)
Wanted(c) ==
    CASE pc[c] = "u_lock_nc" -> "num_competitors"
      [] pc[c] = "u_lock_ns" -> "num_spectators"
      [] pc[c] = "ser" -> "gamestate"
      [] pc[c] \in {"u_lock_gs", "lock_in", "lock_ib", "lock_ia", "lock_gs", "w_lock_gs"} ->
           LockAt(pc[c], connection_type[c]).m
      [] OTHER -> ""

\* the thread a handler waits for: the holder of the mutex it wants (0: none)
WaitsFor(c) ==
    IF proc_alive /\ Wanted(c) # "" THEN mutex[Wanted(c)] ELSE 0

\* the thread reached from c along n waits (0: the chain ends before)
RECURSIVE Follow(_, _)
Follow(c, n) ==
    IF n = 0 THEN c
    ELSE LET d == Follow(c, n - 1) IN IF d = 0 THEN 0 ELSE WaitsFor(d)

CyclicWait == \E c \in Conns : \E n \in 1..NumConns : Follow(c, n) = c

\* C30: in no reachable state do handler threads wait for one another in a
\* cycle over the input_a, input_b, gamestate, num_competitors and
\* num_spectators mutexes.
Thm_C30 == ~CyclicWait

\* a handler that holds a mutex waits for a second one held by another handler
Wit_C30 == \E c \in Conns : HeldBy(c) # {} /\ WaitsFor(c) \notin {0, c}

====
